---- MODULE Spec2Model ----
(***************************************************************************)
(* Model of train_cluster_with_deps.py: the chat-message formatter         *)
(* (format_messages), the dependency bootstrap (install_dependencies),     *)
(* the module-level import block and the step order of main.               *)
(*                                                                         *)
(* Python strings are sequences of one-character strings, so that          *)
(* concatenation, prefixes and splitting are computed, not assumed.        *)
(***************************************************************************)
EXTENDS Naturals, Sequences, FiniteSets, TLC

(***************************************************************************)
(* Bounds of the model.                                                    *)
(***************************************************************************)
\* total number of turns in one batch handed to format_messages
MaxTurns == 3
\* number of examples in one batch
MaxBatch == 2
\* the same two bounds for the batches of two interleaved calls
MaxTurnsPar == 1
MaxBatchPar == 2

(***************************************************************************)
(* String literals of format_messages (lines 167-171).                     *)
(***************************************************************************)
IM_START == <<"<", "|", "i", "m", "_", "s", "t", "a", "r", "t", "|", ">">>
IM_END == <<"<", "|", "i", "m", "_", "e", "n", "d", "|", ">">>
NL == <<"\n">>
SystemTag == <<"s", "y", "s", "t", "e", "m">>
UserTag == <<"u", "s", "e", "r">>
AssistantTag == <<"a", "s", "s", "i", "s", "t", "a", "n", "t">>

\* the two concurrent invocations of format_messages that are modelled
Calls == {1, 2}

\* a Python dict with the given keys: a turn of a conversation
Turn(r, c) == [role |-> r, content |-> c]
TurnNoContent(r) == [role |-> r]
TurnNoRole(c) == [content |-> c]

\* the value of a call that has not returned
NoResult == <<>>
NoError == <<>>

VARIABLES
  examples,     \* examples[c]: the list examples['messages'] passed to call c
  pc,           \* pc[c]: where call c stands in format_messages
  formatted,    \* formatted[c]: the local list `formatted`
  text,         \* text[c]: the local accumulator `text`
  i,            \* i[c]: number of examples the outer loop has taken
  j,            \* j[c]: number of messages the inner loop has taken
  result,       \* result[c]: the returned mapping, NoResult before the return
  error,        \* error[c]: the exception that left the call, NoError if none
  spc,          \* where the script stands (the statement it runs next)
  idx,          \* number of pip invocations install_dependencies has made
  attempts,     \* the packages pip was invoked for, in order
  failed,       \* the packages whose pip exited non-zero
  imported,     \* the third-party modules imported so far
  isMain,       \* __name__ == "__main__"
  mainCalled,   \* main() has been called
  trace,        \* the steps of main that ran, each with its outcome
  log,          \* the log lines the claims refer to, in order
  exitStatus    \* "running", or the exit status of the process

fvars == <<examples, pc, formatted, text, i, j, result, error>>
svars == <<spc, idx, attempts, failed, imported, isMain, mainCalled, trace, log, exitStatus>>
vars == <<examples, pc, formatted, text, i, j, result, error,
          spc, idx, attempts, failed, imported, isMain, mainCalled, trace, log, exitStatus>>

(***************************************************************************)
(* format_messages, lines 158-173, one action per statement of the loop    *)
(* nest.  All locals are per call.                                         *)
(***************************************************************************)

\* line 160: formatted = []
Call(c) ==
  /\ pc[c] = "ready"
  /\ formatted' = [formatted EXCEPT ![c] = <<>>]
  /\ i' = [i EXCEPT ![c] = 0]
  /\ pc' = [pc EXCEPT ![c] = "examples"]
  /\ UNCHANGED <<examples, text, j, result, error>>
  /\ UNCHANGED svars

\* ForExample without the reset of the accumulator
ForExample_NoReset(c) ==
  /\ pc[c] = "examples"
  /\ i[c] < Len(examples[c])
  /\ i' = [i EXCEPT ![c] = i[c] + 1]
  /\ j' = [j EXCEPT ![c] = 0]
  /\ pc' = [pc EXCEPT ![c] = "messages"]
  /\ UNCHANGED <<examples, formatted, text, result, error>>
  /\ UNCHANGED svars

\* lines 161-162: the outer loop takes the next example; text = ""
ForExample(c) ==
  /\ pc[c] = "examples"
  /\ i[c] < Len(examples[c])
  /\ i' = [i EXCEPT ![c] = i[c] + 1]
  /\ text' = [text EXCEPT ![c] = <<>>]
  /\ j' = [j EXCEPT ![c] = 0]
  /\ pc' = [pc EXCEPT ![c] = "messages"]
  /\ UNCHANGED <<examples, formatted, result, error>>
  /\ UNCHANGED svars

\* lines 164-165: message['role'], then message['content']; the key whose
\* lookup raises KeyError, "none" if both lookups succeed
MissingKey(message) ==
  IF "role" \notin DOMAIN message THEN "role"
  ELSE IF "content" \notin DOMAIN message THEN "content"
  ELSE "none"

\* Render with a branch for every other role as well
Render_AnyRole(role, content) ==
  IF role = "system" THEN IM_START \o SystemTag \o NL \o content \o IM_END \o NL
  ELSE IF role = "user" THEN IM_START \o UserTag \o NL \o content \o IM_END \o NL
  ELSE IF role = "assistant" THEN IM_START \o AssistantTag \o NL \o content \o IM_END \o NL
  ELSE IM_START \o <<"o", "t", "h", "e", "r">> \o NL \o content \o IM_END \o NL

\* Render without the newline that closes a turn
Render_NoNewline(role, content) ==
  IF role = "system" THEN IM_START \o SystemTag \o NL \o content \o IM_END
  ELSE IF role = "user" THEN IM_START \o UserTag \o NL \o content \o IM_END
  ELSE IF role = "assistant" THEN IM_START \o AssistantTag \o NL \o content \o IM_END
  ELSE <<>>

\* lines 166-171: the text one turn adds; nothing for any other role
Render(role, content) ==
  IF role = "system" THEN IM_START \o SystemTag \o NL \o content \o IM_END \o NL
  ELSE IF role = "user" THEN IM_START \o UserTag \o NL \o content \o IM_END \o NL
  ELSE IF role = "assistant" THEN IM_START \o AssistantTag \o NL \o content \o IM_END \o NL
  ELSE <<>>

\* Concat with its operands swapped
Concat_Prepend(acc, piece) == piece \o acc

\* text += piece
Concat(acc, piece) == acc \o piece

\* Raise replaced by skipping the turn, as a try/except around the lookups would
Raise_Swallow(c, key) ==
  /\ j' = [j EXCEPT ![c] = j[c] + 1]
  /\ UNCHANGED <<examples, pc, formatted, text, i, result, error>>

\* an uncaught KeyError leaves format_messages: nothing is returned
Raise(c, key) ==
  /\ error' = [error EXCEPT ![c] = <<"KeyError", key>>]
  /\ pc' = [pc EXCEPT ![c] = "raised"]
  /\ UNCHANGED <<examples, formatted, text, i, j, result>>

\* lines 163-171: one iteration of the inner loop
ForMessage(c) ==
  /\ pc[c] = "messages"
  /\ j[c] < Len(examples[c][i[c]])
  /\ LET message == examples[c][i[c]][j[c] + 1]
     IN  IF MissingKey(message) # "none"
         THEN Raise(c, MissingKey(message))
         ELSE /\ text' = [text EXCEPT ![c] = Concat(text[c], Render(message.role, message.content))]
              /\ j' = [j EXCEPT ![c] = j[c] + 1]
              /\ UNCHANGED <<examples, pc, formatted, i, result, error>>
  /\ UNCHANGED svars

\* AppendText that leaves out an empty text
AppendText_SkipEmpty(c) ==
  /\ pc[c] = "messages"
  /\ j[c] = Len(examples[c][i[c]])
  /\ formatted' = [formatted EXCEPT ![c] = IF text[c] = <<>> THEN formatted[c]
                                                          ELSE Append(formatted[c], text[c])]
  /\ pc' = [pc EXCEPT ![c] = "examples"]
  /\ UNCHANGED <<examples, text, i, j, result, error>>
  /\ UNCHANGED svars

\* AppendText on one list shared by all calls (a module-level `formatted`)
AppendText_Shared(c) ==
  /\ pc[c] = "messages"
  /\ j[c] = Len(examples[c][i[c]])
  /\ formatted' = [d \in Calls |-> Append(formatted[d], text[c])]
  /\ pc' = [pc EXCEPT ![c] = "examples"]
  /\ UNCHANGED <<examples, text, i, j, result, error>>
  /\ UNCHANGED svars

\* line 172: formatted.append(text), once the inner loop is exhausted
AppendText(c) ==
  /\ pc[c] = "messages"
  /\ j[c] = Len(examples[c][i[c]])
  /\ formatted' = [formatted EXCEPT ![c] = Append(formatted[c], text[c])]
  /\ pc' = [pc EXCEPT ![c] = "examples"]
  /\ UNCHANGED <<examples, text, i, j, result, error>>
  /\ UNCHANGED svars

\* line 173: return {'text': formatted}, once the outer loop is exhausted
Return(c) ==
  /\ pc[c] = "examples"
  /\ i[c] = Len(examples[c])
  /\ result' = [result EXCEPT ![c] = [text |-> formatted[c]]]
  /\ pc' = [pc EXCEPT ![c] = "done"]
  /\ UNCHANGED <<examples, formatted, text, i, j, error>>
  /\ UNCHANGED svars

(***************************************************************************)
(* install_dependencies, lines 19-72.  pip either exits 0 or exits         *)
(* non-zero, which subprocess.check_call turns into CalledProcessError.    *)
(***************************************************************************)
\* lines 28-34
Packages ==
  <<"datasets==2.19.0", "transformers==4.40.0", "peft==0.10.0",
    "accelerate==0.29.0", "bitsandbytes==0.43.0">>

\* lines 51-57
EssentialDeps ==
  <<"fsspec==2024.3.1", "pyarrow>=12.0.0", "dill>=0.3.0", "multiprocess", "xxhash">>

\* InstallPackage that gives up at the first failure (sys.exit(1) in the handler)
InstallPackage_ExitOnFail(ok) ==
  /\ spc = "install"
  /\ idx < Len(Packages)
  /\ attempts' = Append(attempts, Packages[idx + 1])
  /\ failed' = IF ok THEN failed ELSE failed \cup {Packages[idx + 1]}
  /\ idx' = idx + 1
  /\ spc' = IF ok THEN spc ELSE "exited"
  /\ exitStatus' = IF ok THEN exitStatus ELSE "exit1"
  /\ UNCHANGED <<imported, isMain, mainCalled, trace, log>>
  /\ UNCHANGED fvars

\* lines 36-48: one iteration of the first loop; ok is pip's exit status 0
InstallPackage(ok) ==
  /\ spc = "install"
  /\ idx < Len(Packages)
  /\ attempts' = Append(attempts, Packages[idx + 1])
  /\ failed' = IF ok THEN failed ELSE failed \cup {Packages[idx + 1]}
  /\ idx' = idx + 1
  /\ UNCHANGED <<spc, imported, isMain, mainCalled, trace, log, exitStatus>>
  /\ UNCHANGED fvars

\* lines 59-70: one iteration of the second loop
InstallEssential(ok) ==
  /\ spc = "install"
  /\ idx >= Len(Packages)
  /\ idx < Len(Packages) + Len(EssentialDeps)
  /\ attempts' = Append(attempts, EssentialDeps[idx - Len(Packages) + 1])
  /\ failed' = IF ok THEN failed ELSE failed \cup {EssentialDeps[idx - Len(Packages) + 1]}
  /\ idx' = idx + 1
  /\ UNCHANGED <<spc, imported, isMain, mainCalled, trace, log, exitStatus>>
  /\ UNCHANGED fvars

\* line 72: the final log line; install_dependencies returns (line 75)
InstallReturn ==
  /\ spc = "install"
  /\ idx = Len(Packages) + Len(EssentialDeps)
  /\ log' = Append(log, "all_dependencies_installed")
  /\ spc' = "import_torch"
  /\ UNCHANGED <<idx, attempts, failed, imported, isMain, mainCalled, trace, exitStatus>>
  /\ UNCHANGED fvars

(***************************************************************************)
(* The import block, lines 78-143.  An import succeeds, raises ImportError *)
(* or raises some other exception, which nothing catches.                  *)
(***************************************************************************)
ImportOutcomes == {"ok", "ImportError", "OtherError"}
Required == {"torch", "datasets", "transformers", "peft"}

\* an exception no handler catches: traceback, exit status 1
Crash ==
  /\ spc' = "crashed"
  /\ exitStatus' = "exit1"

\* one import statement of the outer try block
Import(here, module, onImportError, next, outcome) ==
  /\ spc = here
  /\ IF outcome = "ok"
     THEN /\ imported' = imported \cup {module}
          /\ spc' = next
          /\ UNCHANGED exitStatus
     ELSE IF outcome = "ImportError"
     THEN /\ spc' = onImportError
          /\ UNCHANGED <<imported, exitStatus>>
     ELSE /\ Crash
          /\ UNCHANGED imported
  /\ UNCHANGED <<idx, attempts, failed, isMain, mainCalled, trace, log>>
  /\ UNCHANGED fvars

\* line 79
ImportTorch(outcome) ==
  Import("import_torch", "torch", "import_failed", "import_datasets", outcome)

\* lines 83-87: an ImportError goes to the inner handler
ImportDatasets(outcome) ==
  Import("import_datasets", "datasets", "manual_datasets", "import_transformers", outcome)

\* ManualDatasets without the re-raise of line 100
ManualDatasets_NoReraise(exists, outcome) ==
  /\ spc = "manual_datasets"
  /\ IF ~exists
     THEN /\ log' = Append(log, "datasets_init_not_found")
          /\ spc' = "import_transformers"
          /\ UNCHANGED <<imported, exitStatus>>
     ELSE IF outcome = "ok"
     THEN /\ imported' = imported \cup {"datasets"}
          /\ spc' = "import_transformers"
          /\ UNCHANGED <<log, exitStatus>>
     ELSE IF outcome = "ImportError"
     THEN /\ spc' = "import_failed"
          /\ UNCHANGED <<imported, log, exitStatus>>
     ELSE /\ spc' = "crashed"
          /\ exitStatus' = "exit1"
          /\ UNCHANGED <<imported, log>>
  /\ UNCHANGED <<idx, attempts, failed, isMain, mainCalled, trace>>
  /\ UNCHANGED fvars

\* lines 88-100, the inner handler: load datasets/__init__.py by hand if the
\* file exists, else log and re-raise to the outer handler
ManualDatasets(exists, outcome) ==
  /\ spc = "manual_datasets"
  /\ IF ~exists
     THEN /\ log' = Append(log, "datasets_init_not_found")
          /\ spc' = "import_failed"
          /\ UNCHANGED <<imported, exitStatus>>
     ELSE IF outcome = "ok"
     THEN /\ imported' = imported \cup {"datasets"}
          /\ spc' = "import_transformers"
          /\ UNCHANGED <<log, exitStatus>>
     ELSE IF outcome = "ImportError"
     THEN /\ spc' = "import_failed"
          /\ UNCHANGED <<imported, log, exitStatus>>
     ELSE /\ Crash
          /\ UNCHANGED <<imported, log>>
  /\ UNCHANGED <<idx, attempts, failed, isMain, mainCalled, trace>>
  /\ UNCHANGED fvars

\* lines 102-107
ImportTransformers(outcome) ==
  Import("import_transformers", "transformers", "import_failed", "import_peft", outcome)

\* lines 109-113
ImportPeft(outcome) ==
  Import("import_peft", "peft", "import_failed", "guard", outcome)

\* lines 115-143, the outer handler: diagnostics, then sys.exit(1)
ImportFailed ==
  /\ spc = "import_failed"
  /\ log' = Append(log, "import_error")
  /\ spc' = "exited"
  /\ exitStatus' = "exit1"
  /\ UNCHANGED <<idx, attempts, failed, imported, isMain, mainCalled, trace>>
  /\ UNCHANGED fvars

\* lines 304-305: main() only when run as a script
MainGuard ==
  /\ spc = "guard"
  /\ IF isMain
     THEN /\ mainCalled' = TRUE
          /\ spc' = "config"
     ELSE /\ spc' = "module_loaded"
          /\ UNCHANGED mainCalled
  /\ UNCHANGED <<idx, attempts, failed, imported, isMain, trace, log, exitStatus>>
  /\ UNCHANGED fvars

(***************************************************************************)
(* main, lines 175-302.  Every step calls into a library and either        *)
(* returns or raises; main catches nothing.                                *)
(***************************************************************************)
MainOrder ==
  <<"config", "cuda_check", "load_tokenizer", "load_model", "lora", "load_dataset",
    "tokenize_train", "tokenize_val", "build_trainer", "train", "save_model",
    "save_tokenizer", "log_success">>

\* one step of main: it runs at its place, and the next one follows only if
\* it returned
MainStep(step, next, ok) ==
  /\ spc = step
  /\ trace' = Append(trace, <<step, IF ok THEN "ok" ELSE "raised">>)
  /\ IF ok
     THEN /\ spc' = next
          /\ UNCHANGED exitStatus
     ELSE Crash
  /\ UNCHANGED <<idx, attempts, failed, imported, isMain, mainCalled, log>>
  /\ UNCHANGED fvars

\* lines 176-192: int(os.getenv(...)) and float(os.getenv(...))
ReadConfig(ok) == MainStep("config", "cuda_check", ok)

\* lines 195-204: torch.cuda.is_available() is true and the GPUs are listed,
\* or it is false and main calls exit(1), or one of the torch calls raises
CudaOutcomes == {"ok", "unavailable", "raised"}

CheckCuda(outcome) ==
  /\ spc = "cuda_check"
  /\ trace' = Append(trace, <<"cuda_check", outcome>>)
  /\ IF outcome = "ok"
     THEN /\ spc' = "load_tokenizer"
          /\ UNCHANGED <<log, exitStatus>>
     ELSE IF outcome = "unavailable"
     THEN /\ log' = Append(log, "cuda_not_available")
          /\ spc' = "exited"
          /\ exitStatus' = "exit1"
     ELSE /\ Crash
          /\ UNCHANGED log
  /\ UNCHANGED <<idx, attempts, failed, imported, isMain, mainCalled>>
  /\ UNCHANGED fvars

\* line 208
LoadTokenizer(ok) == MainStep("load_tokenizer", "load_model", ok)
\* lines 209-219
LoadModel(ok) == MainStep("load_model", "lora", ok)
\* lines 222-231
SetupLoRA(ok) == MainStep("lora", "load_dataset", ok)
\* line 234
LoadDataset(ok) == MainStep("load_dataset", "tokenize_train", ok)
\* line 248: the mapper calls tokenize_function, hence format_messages, on
\* the batches it forms; an exception of either leaves main
TokenizeTrain(ok) == MainStep("tokenize_train", "tokenize_val", ok)
\* line 249
TokenizeVal(ok) == MainStep("tokenize_val", "build_trainer", ok)
\* lines 252-290
BuildTrainer(ok) == MainStep("build_trainer", "train", ok)
\* Train inside a try/except that logs and carries on
Train_Swallow(ok) ==
  /\ spc = "train"
  /\ trace' = Append(trace, <<"train", IF ok THEN "ok" ELSE "raised">>)
  /\ spc' = "save_model"
  /\ UNCHANGED <<idx, attempts, failed, imported, isMain, mainCalled, log, exitStatus>>
  /\ UNCHANGED fvars

\* line 294
Train(ok) == MainStep("train", "save_model", ok)
\* line 298
SaveModel(ok) == MainStep("save_model", "save_tokenizer", ok)
\* line 299
SaveTokenizer(ok) == MainStep("save_tokenizer", "log_success", ok)

\* lines 301-302: the success log; main returns and the script ends
LogSuccess ==
  /\ spc = "log_success"
  /\ trace' = Append(trace, <<"log_success", "ok">>)
  /\ log' = Append(log, "training_completed")
  /\ spc' = "exited"
  /\ exitStatus' = "exit0"
  /\ UNCHANGED <<idx, attempts, failed, imported, isMain, mainCalled>>
  /\ UNCHANGED fvars

\* the script while main tokenizes: the state in which format_messages runs
ScriptTokenizing ==
  /\ spc = "tokenize_train"
  /\ idx = Len(Packages) + Len(EssentialDeps)
  /\ attempts = Packages \o EssentialDeps
  /\ failed = {}
  /\ imported = Required
  /\ isMain = TRUE
  /\ mainCalled = TRUE
  /\ trace = [n \in 1..6 |-> <<MainOrder[n], "ok">>]
  /\ log = <<"all_dependencies_installed">>
  /\ exitStatus = "running"

(***************************************************************************)
(* Inputs: batches of examples, an example being a list of turns.          *)
(***************************************************************************)
\* contents used by the turns
Str_S == <<"S">>
Str_U == <<"U">>
Str_A == <<"A">>
Str_T == <<"T">>

\* non-decreasing cut points 0 <= b[1] <= ... <= b[k-1] <= n
Cuts(n, k) ==
  {b \in [1..(k - 1) -> 0..n] : \A p \in 1..(k - 2) : b[p] <= b[p + 1]}

\* the batch of k examples that the flat list f of turns gives when cut at b
CutAt(f, k, b) ==
  [e \in 1..k |->
     SubSeq(f, (IF e = 1 THEN 0 ELSE b[e - 1]) + 1, IF e = k THEN Len(f) ELSE b[e])]

\* all batches of at most maxBatch examples holding at most maxTurns turns
Batches(turns, maxTurns, maxBatch) ==
  {<<>>} \cup
  UNION {UNION {{CutAt(f, k, b) : b \in Cuts(n, k)} : f \in [1..n -> turns]} :
           <<n, k>> \in (0..maxTurns) \X (1..maxBatch)}

\* turns of every kind: the three recognized roles, an unrecognized role,
\* and dicts that lack 'role' or 'content'
Turns ==
  { Turn("system", Str_S), Turn("user", Str_U), Turn("assistant", Str_A),
    Turn("tool", Str_T),
    TurnNoContent("user"), TurnNoContent("tool"), TurnNoRole(Str_U) }

FormatterIdle ==
  /\ formatted = [c \in Calls |-> <<>>]
  /\ text = [c \in Calls |-> <<>>]
  /\ i = [c \in Calls |-> 0]
  /\ j = [c \in Calls |-> 0]
  /\ result = [c \in Calls |-> NoResult]
  /\ error = [c \in Calls |-> NoError]

\* one call of format_messages on a batch of any kind
Init ==
  /\ \E b \in Batches(Turns, MaxTurns, MaxBatch) :
       examples = [c \in Calls |-> IF c = 1 THEN b ELSE <<>>]
  /\ pc = [c \in Calls |-> IF c = 1 THEN "ready" ELSE "off"]
  /\ FormatterIdle
  /\ ScriptTokenizing

Next ==
  \E c \in Calls :
     Call(c) \/ ForExample(c) \/ ForMessage(c) \/ AppendText(c) \/ Return(c)

Spec == Init /\ [][Next]_vars

\* two interleaved calls, as when the dataset mapper runs several workers
ParTurns == { Turn("user", Str_U), Turn("assistant", Str_A), TurnNoRole(Str_U) }

InitPar ==
  /\ examples \in [Calls -> Batches(ParTurns, MaxTurnsPar, MaxBatchPar)]
  /\ pc = [c \in Calls |-> "ready"]
  /\ FormatterIdle
  /\ ScriptTokenizing

SpecPar == InitPar /\ [][Next]_vars

\* one call on turns whose contents are empty or hold delimiter text
SplitTurns ==
  { Turn("user", <<>>), Turn("system", IM_END),
    Turn("assistant", IM_END \o NL \o Str_A), Turn("assistant", Str_A) }

InitSplit ==
  /\ \E b \in Batches(SplitTurns, MaxTurns, MaxBatch) :
       examples = [c \in Calls |-> IF c = 1 THEN b ELSE <<>>]
  /\ pc = [c \in Calls |-> IF c = 1 THEN "ready" ELSE "off"]
  /\ FormatterIdle
  /\ ScriptTokenizing

SpecSplit == InitSplit /\ [][Next]_vars

(***************************************************************************)
(* The script from its first statement: install_dependencies() (line 75),  *)
(* the imports, then main.  format_messages has not been called.           *)
(***************************************************************************)
InitScript ==
  /\ spc = "install"
  /\ idx = 0
  /\ attempts = <<>>
  /\ failed = {}
  /\ imported = {}
  /\ isMain \in BOOLEAN
  /\ mainCalled = FALSE
  /\ trace = <<>>
  /\ log = <<>>
  /\ exitStatus = "running"
  /\ examples = [c \in Calls |-> <<>>]
  /\ pc = [c \in Calls |-> "off"]
  /\ FormatterIdle

NextScript ==
  \/ \E ok \in BOOLEAN : InstallPackage(ok)
  \/ \E ok \in BOOLEAN : InstallEssential(ok)
  \/ InstallReturn
  \/ \E outcome \in ImportOutcomes : ImportTorch(outcome)
  \/ \E outcome \in ImportOutcomes : ImportDatasets(outcome)
  \/ \E exists \in BOOLEAN : \E outcome \in ImportOutcomes : ManualDatasets(exists, outcome)
  \/ \E outcome \in ImportOutcomes : ImportTransformers(outcome)
  \/ \E outcome \in ImportOutcomes : ImportPeft(outcome)
  \/ ImportFailed
  \/ MainGuard
  \/ \E ok \in BOOLEAN : ReadConfig(ok)
  \/ \E outcome \in CudaOutcomes : CheckCuda(outcome)
  \/ \E ok \in BOOLEAN : LoadTokenizer(ok)
  \/ \E ok \in BOOLEAN : LoadModel(ok)
  \/ \E ok \in BOOLEAN : SetupLoRA(ok)
  \/ \E ok \in BOOLEAN : LoadDataset(ok)
  \/ \E ok \in BOOLEAN : TokenizeTrain(ok)
  \/ \E ok \in BOOLEAN : TokenizeVal(ok)
  \/ \E ok \in BOOLEAN : BuildTrainer(ok)
  \/ \E ok \in BOOLEAN : Train(ok)
  \/ \E ok \in BOOLEAN : SaveModel(ok)
  \/ \E ok \in BOOLEAN : SaveTokenizer(ok)
  \/ LogSuccess

\* a sequential program: it takes its next step as long as it has one
SpecScript == InitScript /\ [][NextScript]_vars /\ WF_vars(NextScript)

(***************************************************************************)
(* What the specification expects of format_messages, stated without the   *)
(* loop nest.                                                              *)
(***************************************************************************)
Recognized == {"system", "user", "assistant"}

WellFormed(turn) == {"role", "content"} \subseteq DOMAIN turn
IsRecognized(turn) == WellFormed(turn) /\ turn.role \in Recognized
IsUnrecognized(turn) == WellFormed(turn) /\ turn.role \notin Recognized
AllRecognized(example) == \A p \in 1..Len(example) : IsRecognized(example[p])
HasFaultyTurn(batch) ==
  \E k \in 1..Len(batch) : \E p \in 1..Len(batch[k]) : ~WellFormed(batch[k][p])

RoleText(role) ==
  CASE role = "system" -> SystemTag
    [] role = "user" -> UserTag
    [] role = "assistant" -> AssistantTag

\* '<|im_start|>' + role + newline + content + '<|im_end|>' + newline
Wrapped(turn) == IM_START \o RoleText(turn.role) \o NL \o turn.content \o IM_END \o NL

RECURSIVE ConcatAll(_)
ConcatAll(example) ==
  IF example = <<>> THEN <<>> ELSE Wrapped(Head(example)) \o ConcatAll(Tail(example))

RemoveAt(s, p) == SubSeq(s, 1, p - 1) \o SubSeq(s, p + 1, Len(s))

ExampleSUA == <<Turn("system", Str_S), Turn("user", Str_U), Turn("assistant", Str_A)>>

\* the text the specification gives for ExampleSUA, character by character
ChatML_SUA ==
  <<"<", "|", "i", "m", "_", "s", "t", "a", "r", "t", "|", ">", "s", "y", "s",
  "t", "e", "m", "\n", "S", "<", "|", "i", "m", "_", "e", "n", "d", "|", ">",
  "\n", "<", "|", "i", "m", "_", "s", "t", "a", "r", "t", "|", ">", "u", "s",
  "e", "r", "\n", "U", "<", "|", "i", "m", "_", "e", "n", "d", "|", ">", "\n",
  "<", "|", "i", "m", "_", "s", "t", "a", "r", "t", "|", ">", "a", "s", "s",
  "i", "s", "t", "a", "n", "t", "\n", "A", "<", "|", "i", "m", "_", "e", "n",
  "d", "|", ">", "\n">>

Done(c) == pc[c] = "done"
Finished(c) == pc[c] \in {"done", "raised"}

\* C1: an example whose turns all have a recognized role is rendered as the
\* concatenation, in input order, of '<|im_start|>' + role + newline + content
\* + '<|im_end|>' + newline of each of its turns; nothing is reordered, merged
\* or cut, and [system S, user U, assistant A] gives exactly the stated text.
C1_OrderPreserved ==
  \A c \in Calls : Done(c) =>
    \A k \in 1..Len(examples[c]) :
      /\ AllRecognized(examples[c][k]) =>
           result[c].text[k] = ConcatAll(examples[c][k])
      /\ examples[c][k] = ExampleSUA => result[c].text[k] = ChatML_SUA

C1_Witness ==
  /\ Done(1)
  /\ \E k \in 1..Len(examples[1]) : examples[1][k] = ExampleSUA

\* C2: a successful call on N examples returns a mapping whose only key is
\* 'text', holding exactly N strings, the string at index k being the
\* formatting of example k alone.
C2_BatchAligned ==
  \A c \in Calls : Done(c) =>
    /\ DOMAIN result[c] = {"text"}
    /\ Len(result[c].text) = Len(examples[c])
    /\ \A k \in 1..Len(examples[c]) :
         result[c].text[k] = ConcatAll(SelectSeq(examples[c][k], IsRecognized))

C2_Witness ==
  /\ Done(1)
  /\ Len(examples[1]) = 2
  /\ examples[1][1] # examples[1][2]
  /\ examples[1][1] # <<>>
  /\ examples[1][2] # <<>>

\* C3: a batch in which some turn lacks 'role' or 'content' never returns a
\* mapping: the call ends in a KeyError, whatever the position of the turn
\* and whatever its role, and the examples before it are not returned either.
C3_WholeBatchFails ==
  \A c \in Calls : HasFaultyTurn(examples[c]) =>
    /\ ~Done(c)
    /\ result[c] = NoResult
    /\ Finished(c) => error[c] \in {<<"KeyError", "role">>, <<"KeyError", "content">>}

C3_Witness ==
  /\ pc[1] = "raised"
  /\ Len(examples[1]) = 2
  /\ examples[1][2] = <<TurnNoContent("tool")>>
  /\ Len(formatted[1]) = 1
  /\ formatted[1][1] # <<>>

\* C4: a turn with both keys whose role is not system, user or assistant
\* raises no error and adds nothing: the example is rendered as the same
\* example without that turn.
C4_SkipsUnrecognized ==
  \A c \in Calls : Done(c) =>
    \A k \in 1..Len(examples[c]) : \A p \in 1..Len(examples[c][k]) :
      (/\ IsUnrecognized(examples[c][k][p])
       /\ AllRecognized(RemoveAt(examples[c][k], p)))
      => /\ error[c] = NoError
         /\ result[c].text[k] = ConcatAll(RemoveAt(examples[c][k], p))

C4_Witness ==
  /\ Done(1)
  /\ \E k \in 1..Len(examples[1]) :
       examples[1][k] = <<Turn("user", Str_U), Turn("tool", Str_T), Turn("assistant", Str_A)>>

\* C6: an example without turns gives the empty string at its own index, and
\* a batch without examples gives {'text': []}.
C6_EmptyCases ==
  \A c \in Calls : Done(c) =>
    /\ examples[c] = <<>> => result[c] = [text |-> <<>>]
    /\ \A k \in 1..Len(examples[c]) :
         examples[c][k] = <<>> => (k \in DOMAIN result[c].text /\ result[c].text[k] = <<>>)

C6_Witness ==
  /\ Done(1)
  /\ Len(examples[1]) = 2
  /\ examples[1][1] # <<>>
  /\ examples[1][2] = <<>>

(***************************************************************************)
(* str.split(sep): the segments between the occurrences of sep, found      *)
(* from the left and not overlapping.                                      *)
(***************************************************************************)
Delimiter == IM_END \o NL

OccursAt(s, d, p) == p + Len(d) - 1 <= Len(s) /\ SubSeq(s, p, p + Len(d) - 1) = d
Contains(s, d) == \E p \in 1..Len(s) : OccursAt(s, d, p)
IndexOf(s, d) == CHOOSE p \in 1..Len(s) : OccursAt(s, d, p) /\ \A q \in 1..(p - 1) : ~OccursAt(s, d, q)

RECURSIVE Split(_, _)
Split(s, d) ==
  IF ~Contains(s, d) THEN <<s>>
  ELSE <<SubSeq(s, 1, IndexOf(s, d) - 1)>> \o Split(SubSeq(s, IndexOf(s, d) + Len(d), Len(s)), d)

DropTrailingEmpty(segs) ==
  IF segs[Len(segs)] = <<>> THEN SubSeq(segs, 1, Len(segs) - 1) ELSE segs

StartsWith(s, prefix) == Len(prefix) <= Len(s) /\ SubSeq(s, 1, Len(prefix)) = prefix

\* one non-empty segment per turn, each opening with its turn's role marker
SegmentsMatch(example, out) ==
  LET segs == DropTrailingEmpty(Split(out, Delimiter))
  IN  /\ Len(segs) = Len(example)
      /\ \A m \in 1..Len(segs) :
           /\ segs[m] # <<>>
           /\ m <= Len(example) => StartsWith(segs[m], IM_START \o RoleText(example[m].role))

DelimiterFree(example) ==
  \A p \in 1..Len(example) : ~Contains(example[p].content, Delimiter)

\* C5 as stated: for every example with only recognized roles, whatever its
\* contents, the output split on '<|im_end|>' + newline has one non-empty
\* segment per turn, segment m opening with the role marker of turn m.
C5_SplitAnyContent ==
  \A c \in Calls : Done(c) =>
    \A k \in 1..Len(examples[c]) :
      AllRecognized(examples[c][k]) => SegmentsMatch(examples[c][k], result[c].text[k])

\* C5 as amended: the same for every example with only recognized roles whose
\* contents do not contain '<|im_end|>' + newline; empty contents and contents
\* holding '<|im_end|>' alone are covered.
C5_SplitDelimiterFree ==
  \A c \in Calls : Done(c) =>
    \A k \in 1..Len(examples[c]) :
      (AllRecognized(examples[c][k]) /\ DelimiterFree(examples[c][k]))
      => SegmentsMatch(examples[c][k], result[c].text[k])

C5_Witness ==
  /\ Done(1)
  /\ \E k \in 1..Len(examples[1]) :
       examples[1][k] = <<Turn("user", <<>>), Turn("system", IM_END), Turn("assistant", Str_A)>>

\* C7: format_messages never changes its input, and two calls on equal input
\* end alike (same mapping or same error) however their steps interleave.
C7_Stateless ==
  /\ [](\A c \in Calls : \A d \in Calls :
          (Finished(c) /\ Finished(d) /\ examples[c] = examples[d])
          => (result[c] = result[d] /\ error[c] = error[d]))
  /\ [][examples' = examples]_vars

C7_Witness ==
  /\ Done(1)
  /\ Done(2)
  /\ examples[1] = examples[2]
  /\ Len(examples[1]) = 2
  /\ examples[1][1] # <<>>

(***************************************************************************)
(* The script.                                                             *)
(***************************************************************************)
Logged(line) == \E n \in 1..Len(log) : log[n] = line
IsPrefix(s, t) == Len(s) <= Len(t) /\ \A n \in 1..Len(s) : s[n] = t[n]
InstallReturned == Logged("all_dependencies_installed")

\* C8: whatever pip's exit statuses, install_dependencies invokes pip for the
\* 5 pinned packages and then the 5 essential dependencies, each once and in
\* listed order, and always reaches its final log line and returns.
C8_BestEffort ==
  /\ [](/\ IsPrefix(attempts, Packages \o EssentialDeps)
        /\ InstallReturned => attempts = Packages \o EssentialDeps
        /\ ~InstallReturned => (spc = "install" /\ exitStatus = "running"))
  /\ <>InstallReturned

C8_Witness ==
  /\ InstallReturned
  /\ spc = "import_torch"
  /\ Packages[1] \in failed
  /\ EssentialDeps[1] \in failed
  /\ Cardinality(failed) = 2

\* C9: main is called only when torch, datasets, transformers and peft were
\* all imported; once an ImportError reaches the outer handler, also because
\* datasets/__init__.py is absent, the process exits with status 1 and main
\* is never called.
C9_MainNeedsImports ==
  /\ mainCalled => Required \subseteq imported
  /\ spc = "import_failed" => (~mainCalled /\ exitStatus = "running")
  /\ Logged("import_error") => (~mainCalled /\ spc = "exited" /\ exitStatus = "exit1")
  /\ (spc \in {"exited", "crashed"} /\ ~(Required \subseteq imported))
       => (~mainCalled /\ exitStatus = "exit1")

C9_Witness ==
  /\ Logged("datasets_init_not_found")
  /\ Logged("import_error")
  /\ imported = {"torch"}
  /\ isMain
  /\ exitStatus = "exit1"
  /\ ~mainCalled

\* C10: the steps of main run in one fixed order, each only after the one
\* before it returned; without CUDA main exits with status 1 before anything
\* is loaded; the model is saved and success is logged only after
\* trainer.train returned.
C10_MainOrder ==
  /\ Len(trace) <= Len(MainOrder)
  /\ \A n \in 1..Len(trace) :
       /\ n <= Len(MainOrder) => trace[n][1] = MainOrder[n]
       /\ n < Len(trace) => trace[n][2] = "ok"
  /\ (\E n \in 1..Len(trace) : trace[n] = <<"cuda_check", "unavailable">>)
       => (exitStatus = "exit1" /\ trace[Len(trace)][1] = "cuda_check")
  /\ (Logged("training_completed") \/ \E n \in 1..Len(trace) : trace[n][1] = "save_model")
       => \E n \in 1..Len(trace) : trace[n] = <<"train", "ok">>
  /\ trace # <<>> => mainCalled

C10_Witness ==
  /\ exitStatus = "exit0"
  /\ Logged("training_completed")
  /\ Len(trace) = Len(MainOrder)
  /\ failed # {}
====
